---- MODULE Spec2Model ----
(***************************************************************************)
(* Citadel-Agent terminal front-ends.                                      *)
(*                                                                         *)
(*   basic     src/citadel_cli.py           class CitadelTerminal          *)
(*   advanced  src/citadel_advanced_cli.py  class CitadelCLI               *)
(*                                                                         *)
(* Both are single-threaded programs in which every screen handler reads   *)
(* lines from standard input and then CALLS the next screen handler; a     *)
(* handler never loops except CitadelCLI.show_dashboard (while True).  The *)
(* state is therefore the object's fields plus the Python call stack.      *)
(*                                                                         *)
(* A line of input is a sequence of one-character strings, so that         *)
(* str.lower() and str.strip() are computed, not assumed.                  *)
(***************************************************************************)
EXTENDS Integers, Sequences, FiniteSets, TLC

\* ------------------------------------------------------------------ bounds

\* Deepest call stack explored (frames, run() included).  Python itself
\* allows about 1000 frames; the handlers below that would push a frame
\* beyond MaxDepth are not explored.
MaxDepth == 6

\* ------------------------------------------------------------ text values

Uppers == <<"A","B","C","D","E","F","G","H","I","J","K","L","M",
            "N","O","P","Q","R","S","T","U","V","W","X","Y","Z">>
Lowers == <<"a","b","c","d","e","f","g","h","i","j","k","l","m",
            "n","o","p","q","r","s","t","u","v","w","x","y","z">>

\* str.lower() on one character
LowerChar(c) ==
    IF \E i \in DOMAIN Uppers : Uppers[i] = c
    THEN Lowers[CHOOSE i \in DOMAIN Uppers : Uppers[i] = c]
    ELSE c

\* str.lower()
Lower(s) == [i \in DOMAIN s |-> LowerChar(s[i])]

IsSpace(c) == c \in {" ", "\t"}

RECURSIVE LStrip(_)
LStrip(s) == IF s # <<>> /\ IsSpace(Head(s)) THEN LStrip(Tail(s)) ELSE s

RECURSIVE RStrip(_)
RStrip(s) ==
    IF s # <<>> /\ IsSpace(s[Len(s)]) THEN RStrip(SubSeq(s, 1, Len(s) - 1)) ELSE s

\* str.strip()
Strip(s) == RStrip(LStrip(s))

\* Command words of the two dashboards
w_h         == <<"h">>
w_esc       == <<"e","s","c">>
w_quit      == <<"q","u","i","t">>
w_exit      == <<"e","x","i","t">>
w_q         == <<"q">>
w_dashboard == <<"d","a","s","h","b","o","a","r","d">>
w_workflow  == <<"w","o","r","k","f","l","o","w">>
w_nodes     == <<"n","o","d","e","s">>
w_monitor   == <<"m","o","n","i","t","o","r">>
w_security  == <<"s","e","c","u","r","i","t","y">>
w_settings  == <<"s","e","t","t","i","n","g","s">>

\* Default credentials, the second argument of os.getenv
w_admin     == <<"a","d","m","i","n">>
w_citadel   == <<"c","i","t","a","d","e","l">>

\* Python's None, distinct from every line of input
None == <<"None">>

\* ------------------------------------------------ lines the user may type

\* Lines tried at a dashboard prompt: every command word, letter-case and
\* whitespace variants, quick-action numbers, the empty line, other text.
DashLines ==
    { w_h, <<"H">>, w_esc, <<"E","S","C">>, <<"E","s","c">>,
      w_quit, <<"Q","U","I","T">>, <<"Q","u","i","t">>, w_exit, <<"E","X","I","T">>,
      w_q, <<"Q">>,
      w_dashboard, w_workflow, <<"W","o","r","k","f","l","o","w">>,
      w_nodes, w_monitor, w_security, w_settings,
      <<" ">> \o w_quit, w_quit \o <<" ">>, <<" ">> \o w_h, w_esc \o <<" ">>,
      <<"1">>, <<"5">>, <<"7">>, <<>>, <<"l","s">> }

\* Lines tried at a "Press ENTER" prompt
EnterLines == { <<>>, w_esc, <<"E","S","C">>, w_quit, w_exit, w_q, w_h }

\* Lines tried at the workflow menu
MenuLines ==
    { <<"B">>, <<"b">>, <<" ","B">>, <<"1">>, <<"2">>, <<"3">>, <<"4">>,
      <<>>, <<"5">>, w_quit, w_esc }

\* Names and passwords tried at the login prompts
w_op == <<"o","p">>
w_pw == <<"p","w">>
UserLines == { w_admin, <<"A","d","m","i","n">>, w_op, w_esc, w_quit, <<>> }
PassLines == { w_citadel, <<"C","i","t","a","d","e","l">>, w_pw, w_quit, <<>> }

\* Values of the environment variables ADMIN_USERNAME / ADMIN_PASSWORD
\* (unset gives the defaults "admin" / "citadel")
EnvUsernames == { w_admin, w_op }
EnvPasswords == { w_citadel, w_pw }

\* ------------------------------------------------------------------ state

VARIABLES
    fe,              \* which program runs: "basic" or "advanced"
    admin_username,  \* os.getenv("ADMIN_USERNAME", "admin")
    admin_password,  \* os.getenv("ADMIN_PASSWORD", "citadel")
    current_user,    \* self.current_user
    session_active,  \* self.session_active
    stack,           \* the call stack, outermost frame first
    pc,              \* the blocking read the innermost frame waits in
    username,        \* local of the innermost login frame
    password,        \* local of the innermost login frame
    status,          \* "running" or "exited"
    exit_code,       \* the process exit status once exited, else -1
    msg,             \* the last message printed to the user
    event,           \* the read just completed: its prompt and what arrived
    system_status,   \* self.system_status
    active_workflows,\* self.active_workflows
    system_metrics,  \* self.system_metrics
    session_id,      \* self.session_id (advanced); id(self) (basic)
    drawn            \* the last drawing: which handler drew, for whom, at what time

vars == << fe, admin_username, admin_password, current_user, session_active,
           stack, pc, username, password, status, exit_code, msg, event,
           system_status, active_workflows, system_metrics, session_id, drawn >>

\* The fields the screens display
display == << system_status, active_workflows, system_metrics, session_id >>

Top(s) == s[Len(s)]

Pop(s) == SubSeq(s, 1, Len(s) - 1)

\* The screen a frame displays
ScreenOf(frame) ==
    CASE frame = "login" -> "Login"
      [] frame = "dash"  -> "Dashboard"
      [] frame = "help"  -> "Help"
      [] frame = "wf"    -> "WorkflowList"
      [] frame = "nodes" -> "NodeList"
      [] frame = "mon"   -> "Monitoring"
      [] frame = "sec"   -> "Security"
      [] frame = "set"   -> "Settings"
      [] OTHER           -> "none"

\* The active screen: that of the innermost frame while the process runs
Screen == IF status = "running" /\ stack # <<>> THEN ScreenOf(Top(stack)) ELSE "none"

\* The first blocking read of a handler
EntryPc(frame) ==
    CASE frame = "login" -> "user"
      [] frame = "dash"  -> "cmd"
      [] frame = "wf"    -> "choice"
      [] OTHER           -> "enter"

NoEvent == [prompt |-> "none", kind |-> "none", line |-> <<>>,
            user |-> None, pass |-> None]

LineEvent(p, l) == [prompt |-> p, kind |-> "line", line |-> l,
                    user |-> None, pass |-> None]

\* ---------------------------------------------------------- display state

\* self.system_metrics as __init__ sets it, for a given cpu figure (the
\* advanced front-end adds two entries that are the constant 'ACTIVE')
Metrics(cpu) == [cpu |-> cpu, ram |-> 62, nodes |-> 42, sessions |-> 3, queued |-> 7]

\* The cpu figure of __init__
InitialCpu == 78

\* self.active_workflows as __init__ sets it: four entries in the advanced
\* front-end, the empty list in the basic one
Workflows(f) ==
    IF f = "basic" THEN <<>>
    ELSE << [id |-> "1", name |-> "Data Sync Pipeline", status |-> "RUNNING", progress |-> 100],
            [id |-> "2", name |-> "Report Generator",   status |-> "PAUSED",  progress |-> 25],
            [id |-> "3", name |-> "API Monitor",        status |-> "FAILED",  progress |-> 8],
            [id |-> "4", name |-> "Email Campaign",     status |-> "QUEUED",  progress |-> 0] >>

\* str(uuid.uuid4())[:8].upper() in the advanced front-end, id(self) in the
\* basic one: fixed at construction, different from run to run (a run has
\* one; no handler reads a second)
SessionIds == { "3F2A9C1E" }

\* datetime.now().strftime('%Y-%m-%d %H:%M:%S') at the moment of a draw
Times == { "2025-01-01 15:32:47", "2025-01-01 15:32:48" }

\* Cells of the advanced front-end's bars and of the basic one's
BarWidthAdvanced == 20

BarWidthBasic == 10

\* "c" * n: a negative n gives the empty string
Cells(c, n) == [i \in 1..n |-> c]

\* The bar with the filled cells rounded to the nearest cell instead of
\* truncated by int()
Bar_rounded(p, per_cell, width) ==
    Cells("#", (2 * p + per_cell) \div (2 * per_cell))
        \o Cells(".", width - ((2 * p + per_cell) \div (2 * per_cell)))

\* "█" * int(p/per_cell) + "░" * (width - int(p/per_cell)), the expression of
\* the workflow, cpu and ram bars; "#" stands for the filled cell and "."
\* for the empty one
Bar(p, per_cell, width) ==
    Cells("#", p \div per_cell) \o Cells(".", width - (p \div per_cell))

\* The bar of the running front-end: p/5 of 20 cells, or p/10 of 10 cells
MetricBar(f, p) ==
    IF f = "basic" THEN Bar(p, 10, BarWidthBasic) ELSE Bar(p, 5, BarWidthAdvanced)

\* What a handler draws before its first read, as far as it depends on the
\* state or on the clock: the rest of every screen is literal text
Render(frame, user, t) ==
    [ screen  |-> ScreenOf(frame),
      user    |-> IF frame = "dash" THEN user ELSE None,
      session |-> IF frame = "dash" THEN session_id ELSE "",
      cpu_bar |-> IF frame = "dash" THEN MetricBar(fe, system_metrics.cpu) ELSE <<>>,
      ram_bar |-> IF frame = "dash" THEN MetricBar(fe, system_metrics.ram) ELSE <<>>,
      metrics |-> IF frame = "dash" THEN <<system_metrics>> ELSE <<>>,
      wf_bars |-> IF frame = "dash" /\ fe = "advanced"
                  THEN [i \in DOMAIN active_workflows |->
                            MetricBar(fe, active_workflows[i].progress)]
                  ELSE <<>>,
      table   |-> IF frame = "wf" THEN active_workflows ELSE <<>>,
      build   |-> IF frame = "help"
                  THEN IF fe = "advanced" THEN t
                       ELSE "{datetime.now().strftime('%Y-%m-%d %H:%M:%S')}"
                  ELSE "" ]

\* A handler draws its screen: the handler, the user it names (the dashboard
\* alone prints self.current_user) and the clock reading it formats (the
\* advanced help screen alone calls datetime.now())
Draw(frame, user, t) ==
    [ frame |-> frame,
      user  |-> IF frame = "dash" THEN user ELSE None,
      time  |-> IF frame = "help" /\ fe = "advanced" THEN t ELSE "" ]

\* The text on the terminal: the last drawing, rendered
Output == Render(drawn.frame, drawn.user, drawn.time)

\* CitadelTerminal.__init__ / CitadelCLI.__init__, then run() entering the
\* login screen inside its try block
Init ==
    /\ system_status = "SECURE"
    /\ system_metrics = Metrics(InitialCpu)
    /\ session_id \in SessionIds
    /\ fe \in {"basic", "advanced"}
    /\ admin_username \in EnvUsernames
    /\ admin_password \in EnvPasswords
    /\ current_user = None
    /\ session_active = FALSE
    /\ stack = <<"run", "login">>
    /\ pc = "user"
    /\ username = None
    /\ password = None
    /\ status = "running"
    /\ exit_code = -1
    /\ msg = "none"
    /\ event = NoEvent
    /\ active_workflows = Workflows(fe)
    /\ drawn = Draw("login", None, "")

Running(f) == status = "running" /\ fe = f /\ stack # <<>>

\* A handler calls the next one: a new innermost frame at its first read
\* (the handler draws its screen for the user given, then waits in that read)
CallAs(frame, user) ==
    /\ Len(stack) < MaxDepth
    /\ stack' = Append(stack, frame)
    /\ pc' = EntryPc(frame)
    /\ username' = None
    /\ password' = None
    /\ \E t \in Times : drawn' = Draw(frame, user, t)

Call(frame) == CallAs(frame, current_user)

\* sys.exit(code), or an exception no handler catches (code 1)
Exit(code) ==
    /\ status' = "exited"
    /\ exit_code' = code
    /\ UNCHANGED << stack, pc, username, password, drawn >>

\* An uncaught exception ends the interpreter with a traceback and status 1
Traceback == 1

\* ------------------------------------------- basic front-end (citadel_cli)

\* The comparison of print_login_screen
CitadelTerminal_authenticate(u, p) == u = admin_username /\ p = admin_password

\* print_login_screen with the assignment of session_active left out
CitadelTerminal_login_branch_no_session(ok, u) ==
    IF ok
    THEN [user |-> u, session |-> session_active, msg |-> "auth_ok", next |-> "dash"]
    ELSE [user |-> current_user, session |-> session_active,
          msg |-> "auth_failed", next |-> "login"]

\* The two branches of print_login_screen after the comparison: the fields
\* written, the message printed and the handler called
CitadelTerminal_login_branch(ok, u) ==
    IF ok
    THEN [user |-> u, session |-> TRUE, msg |-> "auth_ok", next |-> "dash"]
    ELSE [user |-> current_user, session |-> session_active,
          msg |-> "auth_failed", next |-> "login"]

\* display_dashboard whose final else shows the help screen
CitadelTerminal_command_else_help(raw) ==
    LET cmd == Lower(raw) IN
    IF cmd = w_h THEN "show_help"
    ELSE IF cmd = w_esc THEN "print_login_screen"
    ELSE IF cmd = w_quit \/ cmd = w_exit THEN "exit"
    ELSE "show_help"

\* display_dashboard that knows "exit" but not "quit"
CitadelTerminal_command_no_quit(raw) ==
    LET cmd == Lower(raw) IN
    IF cmd = w_h THEN "show_help"
    ELSE IF cmd = w_esc THEN "print_login_screen"
    ELSE IF cmd = w_exit THEN "exit"
    ELSE "unrecognized"

\* The if/elif chain of display_dashboard on input(...).lower()
CitadelTerminal_command(raw) ==
    LET cmd == Lower(raw) IN
    IF cmd = w_h THEN "show_help"
    ELSE IF cmd = w_esc THEN "print_login_screen"
    ELSE IF cmd = w_quit \/ cmd = w_exit THEN "exit"
    ELSE "unrecognized"

\* username = input("")
print_login_screen_username ==
    /\ Running("basic") /\ Top(stack) = "login" /\ pc = "user"
    /\ \E line \in UserLines :
        /\ username' = line
        /\ event' = LineEvent("user", line)
    /\ pc' = "pass"
    /\ UNCHANGED << display, drawn, fe, admin_username, admin_password, current_user,
                    session_active, stack, password, status, exit_code, msg >>

\* password = getpass.getpass("")
print_login_screen_password ==
    /\ Running("basic") /\ Top(stack) = "login" /\ pc = "pass"
    /\ \E line \in PassLines :
        /\ password' = line
        /\ event' = LineEvent("pass", line)
    /\ pc' = "confirm"
    /\ UNCHANGED << display, drawn, fe, admin_username, admin_password, current_user,
                    session_active, stack, username, status, exit_code, msg >>

\* input() for ENTER, then the comparison and the call of the next handler
print_login_screen_authenticate ==
    /\ Running("basic") /\ Top(stack) = "login" /\ pc = "confirm"
    /\ \E line \in EnterLines :
        event' = [prompt |-> "confirm", kind |-> "line", line |-> line,
                  user |-> username, pass |-> password]
    /\ LET b == CitadelTerminal_login_branch(
                    CitadelTerminal_authenticate(username, password), username)
       IN /\ current_user' = b.user
          /\ session_active' = b.session
          /\ msg' = b.msg
          /\ CallAs(b.next, b.user)
    /\ UNCHANGED << display, fe, admin_username, admin_password, status, exit_code >>

\* cmd = input("[CMD]> ").lower() and its dispatch
display_dashboard ==
    /\ Running("basic") /\ Top(stack) = "dash" /\ pc = "cmd"
    /\ \E line \in DashLines :
        /\ event' = LineEvent("cmd", line)
        /\ LET to == CitadelTerminal_command(line) IN
           CASE to = "show_help" ->
                    /\ Call("help")
                    /\ UNCHANGED << status, exit_code, msg >>
             [] to = "print_login_screen" ->
                    /\ Call("login")
                    /\ msg' = "returning"
                    /\ UNCHANGED << status, exit_code >>
             [] to = "exit" ->
                    /\ Exit(0)
                    /\ msg' = "shutdown"
             [] OTHER ->
                    /\ Call("dash")
                    /\ msg' = "unrecognized"
                    /\ UNCHANGED << status, exit_code >>
    /\ UNCHANGED << display, fe, admin_username, admin_password, current_user, session_active >>

\* show_help: input(), then display_dashboard()
CitadelTerminal_show_help ==
    /\ Running("basic") /\ Top(stack) = "help" /\ pc = "enter"
    /\ \E line \in EnterLines : event' = LineEvent("enter", line)
    /\ Call("dash")
    /\ UNCHANGED << display, fe, admin_username, admin_password, current_user,
                    session_active, status, exit_code, msg >>

\* KeyboardInterrupt raised in any read: no handler catches it below run()
CitadelTerminal_run ==
    /\ Running("basic")
    /\ event' = [prompt |-> pc, kind |-> "SIGINT", line |-> <<>>,
                 user |-> None, pass |-> None]
    /\ Exit(0)
    /\ msg' = "shutdown"
    /\ UNCHANGED << display, fe, admin_username, admin_password, current_user, session_active >>

\* EOFError raised by input()/getpass() on a closed stream: nothing catches it
CitadelTerminal_eof ==
    /\ Running("basic")
    /\ event' = [prompt |-> pc, kind |-> "EOF", line |-> <<>>,
                 user |-> None, pass |-> None]
    /\ Exit(Traceback)
    /\ msg' = "traceback"
    /\ UNCHANGED << display, fe, admin_username, admin_password, current_user, session_active >>

\* ---------------------------------- advanced front-end (citadel_advanced_cli)

\* rich's Prompt.ask(prompt, default=d): the empty line gives the default,
\* any other line is returned stripped of surrounding whitespace
Prompt_ask(raw, default) == IF raw = <<>> THEN default ELSE Strip(raw)

\* The options of the workflow menu, choices=['1', '2', '3', '4', 'B']
MenuChoices == { <<"1">>, <<"2">>, <<"3">>, <<"4">>, <<"B">> }

\* rich's Prompt.ask(prompt, choices=c, default=d): a stripped line that is
\* not literally one of the choices is refused and the prompt repeats
Prompt_ask_choices(raw, choices, default) ==
    IF raw = <<>> THEN default
    ELSE IF Strip(raw) \in choices THEN Strip(raw)
    ELSE None

\* show_dashboard comparing "esc" without .lower()
CitadelCLI_command_esc_exact(cmd_input) ==
    LET cmd == Lower(cmd_input) IN
    IF cmd = w_h THEN "show_help"
    ELSE IF cmd_input = w_esc THEN "show_login_screen"
    ELSE IF cmd \in {w_quit, w_exit, w_q} THEN "exit"
    ELSE IF cmd = w_dashboard THEN "show_dashboard"
    ELSE IF cmd = w_workflow THEN "manage_workflows"
    ELSE IF cmd = w_nodes THEN "manage_nodes"
    ELSE IF cmd = w_monitor THEN "show_monitoring"
    ELSE IF cmd = w_security THEN "show_security"
    ELSE IF cmd = w_settings THEN "show_settings"
    ELSE "unrecognized"

\* show_dashboard without 'q' in its list of quit words
CitadelCLI_command_no_q(cmd_input) ==
    LET cmd == Lower(cmd_input) IN
    IF cmd = w_h THEN "show_help"
    ELSE IF cmd = w_esc THEN "show_login_screen"
    ELSE IF cmd \in {w_quit, w_exit} THEN "exit"
    ELSE IF cmd = w_dashboard THEN "show_dashboard"
    ELSE IF cmd = w_workflow THEN "manage_workflows"
    ELSE IF cmd = w_nodes THEN "manage_nodes"
    ELSE IF cmd = w_monitor THEN "show_monitoring"
    ELSE IF cmd = w_security THEN "show_security"
    ELSE IF cmd = w_settings THEN "show_settings"
    ELSE "unrecognized"

\* The if/elif chain of show_dashboard on cmd_input.lower()
CitadelCLI_command(cmd_input) ==
    LET cmd == Lower(cmd_input) IN
    IF cmd = w_h THEN "show_help"
    ELSE IF cmd = w_esc THEN "show_login_screen"
    ELSE IF cmd \in {w_quit, w_exit, w_q} THEN "exit"
    ELSE IF cmd = w_dashboard THEN "show_dashboard"
    ELSE IF cmd = w_workflow THEN "manage_workflows"
    ELSE IF cmd = w_nodes THEN "manage_nodes"
    ELSE IF cmd = w_monitor THEN "show_monitoring"
    ELSE IF cmd = w_security THEN "show_security"
    ELSE IF cmd = w_settings THEN "show_settings"
    ELSE "unrecognized"

\* The frame a handler of CitadelCLI runs in
FrameOf(handler) ==
    CASE handler = "show_help"         -> "help"
      [] handler = "show_login_screen" -> "login"
      [] handler = "show_dashboard"    -> "dash"
      [] handler = "manage_workflows"  -> "wf"
      [] handler = "manage_nodes"      -> "nodes"
      [] handler = "show_monitoring"   -> "mon"
      [] handler = "show_security"     -> "sec"
      [] handler = "show_settings"     -> "set"

\* A frame returns: every handler but show_dashboard (its loop) and run()
\* made its call as its last statement and returns in turn
RECURSIVE Unwind(_)
Unwind(s) ==
    IF s = <<>> \/ Top(s) \in {"dash", "run"} THEN s ELSE Unwind(Pop(s))

\* The stack once the innermost show_dashboard whose try block encloses the
\* read has left its loop (break) and returned
RECURSIVE BreakOut(_)
BreakOut(s) ==
    IF s = <<>> THEN <<>>
    ELSE IF Top(s) = "dash" THEN Unwind(Pop(s))
    ELSE BreakOut(Pop(s))

HasDash(s) == \E i \in DOMAIN s : s[i] = "dash"

\* Control goes back to the frame on top of s; with no loop left to resume,
\* run() and main() return and the interpreter ends normally
Resume(s, text) ==
    /\ stack' = s
    /\ username' = None
    /\ password' = None
    /\ msg' = text
    /\ drawn' = drawn
    /\ IF s # <<>> /\ Top(s) = "dash"
       THEN pc' = "cmd" /\ UNCHANGED << status, exit_code >>
       ELSE pc' = pc /\ status' = "exited" /\ exit_code' = 0

\* username = Prompt.ask("> Username")
show_login_screen_username ==
    /\ Running("advanced") /\ Top(stack) = "login" /\ pc = "user"
    /\ \E line \in UserLines :
        /\ username' = Strip(line)
        /\ event' = LineEvent("user", line)
    /\ pc' = "pass"
    /\ UNCHANGED << display, drawn, fe, admin_username, admin_password, current_user,
                    session_active, stack, password, status, exit_code, msg >>

\* password = getpass.getpass(...), then os.getenv(...): the module never
\* imports os, so the name lookup raises NameError, which nothing catches
show_login_screen_password ==
    /\ Running("advanced") /\ Top(stack) = "login" /\ pc = "pass"
    /\ \E line \in PassLines :
        /\ password' = line
        /\ event' = [prompt |-> "pass", kind |-> "line", line |-> line,
                     user |-> username, pass |-> line]
    /\ status' = "exited"
    /\ exit_code' = Traceback
    /\ msg' = "traceback"
    /\ UNCHANGED << display, drawn, fe, admin_username, admin_password, current_user,
                    session_active, stack, pc, username >>

\* One turn of the while loop of show_dashboard
show_dashboard ==
    /\ Running("advanced") /\ Top(stack) = "dash" /\ pc = "cmd"
    /\ \E line \in DashLines :
        /\ event' = LineEvent("cmd", line)
        /\ LET to == CitadelCLI_command(Prompt_ask(line, <<>>)) IN
           CASE to = "exit" ->
                    /\ Exit(0)
                    /\ msg' = "shutdown"
             [] to = "unrecognized" ->
                    /\ msg' = "unrecognized"
                    /\ UNCHANGED << stack, pc, username, password, status, exit_code, drawn >>
             [] OTHER ->
                    /\ Call(FrameOf(to))
                    /\ msg' = IF to = "show_login_screen" THEN "returning" ELSE msg
                    /\ UNCHANGED << status, exit_code >>
    /\ UNCHANGED << display, fe, admin_username, admin_password, current_user, session_active >>

\* input("Press ENTER to return to dashboard..."), then show_dashboard():
\* the line read is discarded
EnterThenDashboard ==
    /\ pc = "enter"
    /\ \E line \in EnterLines : event' = LineEvent("enter", line)
    /\ Call("dash")
    /\ UNCHANGED << display, fe, admin_username, admin_password, current_user,
                    session_active, status, exit_code, msg >>

CitadelCLI_show_help ==
    /\ Running("advanced") /\ Top(stack) = "help"
    /\ EnterThenDashboard

manage_nodes ==
    /\ Running("advanced") /\ Top(stack) = "nodes"
    /\ EnterThenDashboard

show_monitoring ==
    /\ Running("advanced") /\ Top(stack) = "mon"
    /\ EnterThenDashboard

show_security ==
    /\ Running("advanced") /\ Top(stack) = "sec"
    /\ EnterThenDashboard

show_settings ==
    /\ Running("advanced") /\ Top(stack) = "set"
    /\ EnterThenDashboard

\* choice = Prompt.ask("Select option", choices=[...], default='B') and the
\* if/elif on it; options 2, 3 and 4 match no branch and the handler returns
\* Option 1 with the new workflow appended to self.active_workflows
manage_workflows_create_appends(workflows) ==
    Append(workflows, [id |-> "5", name |-> "New Workflow", status |-> "QUEUED",
                       progress |-> 0])

\* Option 1 of the workflow menu, "Create new workflow": the branch sleeps
\* and prints "New workflow created!"; it assigns nothing, so the list it
\* leaves is the list it found
manage_workflows_create(workflows) == workflows

manage_workflows ==
    /\ Running("advanced") /\ Top(stack) = "wf" /\ pc = "choice"
    /\ \E line \in MenuLines :
        /\ event' = LineEvent("choice", line)
        /\ LET choice == Prompt_ask_choices(line, MenuChoices, <<"B">>) IN
           CASE choice = None ->
                    /\ msg' = "invalid_choice"
                    /\ UNCHANGED active_workflows
                    /\ UNCHANGED << stack, pc, username, password, status, exit_code, drawn >>
             [] choice = <<"B">> ->
                    /\ Call("dash")
                    /\ UNCHANGED << status, exit_code, msg, active_workflows >>
             [] choice = <<"1">> ->
                    /\ active_workflows' = manage_workflows_create(active_workflows)
                    /\ pc' = "created"
                    /\ msg' = "workflow_created"
                    /\ UNCHANGED << stack, username, password, status, exit_code, drawn >>
             [] OTHER ->
                    /\ Resume(Unwind(Pop(stack)), msg)
                    /\ UNCHANGED active_workflows
    /\ UNCHANGED << system_status, system_metrics, session_id, fe, admin_username,
                    admin_password, current_user, session_active >>

\* input("Press ENTER to continue..."), then manage_workflows()
manage_workflows_created ==
    /\ Running("advanced") /\ Top(stack) = "wf" /\ pc = "created"
    /\ \E line \in EnterLines : event' = LineEvent("created", line)
    /\ Call("wf")
    /\ UNCHANGED << display, fe, admin_username, admin_password, current_user,
                    session_active, status, exit_code, msg >>

\* KeyboardInterrupt raised in a read that some show_dashboard's try block
\* encloses: that loop prints "Returning to dashboard..." and breaks
show_dashboard_interrupt ==
    /\ Running("advanced") /\ HasDash(stack)
    /\ event' = [prompt |-> pc, kind |-> "SIGINT", line |-> <<>>,
                 user |-> None, pass |-> None]
    /\ Resume(BreakOut(stack), "interrupt_returning")
    /\ UNCHANGED << display, fe, admin_username, admin_password, current_user, session_active >>

\* KeyboardInterrupt raised with no show_dashboard on the stack: run()
\* catches it and calls sys.exit(0)
CitadelCLI_run ==
    /\ Running("advanced") /\ ~HasDash(stack) /\ stack[1] = "run"
    /\ event' = [prompt |-> pc, kind |-> "SIGINT", line |-> <<>>,
                 user |-> None, pass |-> None]
    /\ Exit(0)
    /\ msg' = "shutdown"
    /\ UNCHANGED << display, fe, admin_username, admin_password, current_user, session_active >>

\* EOFError raised by a read on a closed stream: nothing catches it
CitadelCLI_eof ==
    /\ Running("advanced")
    /\ event' = [prompt |-> pc, kind |-> "EOF", line |-> <<>>,
                 user |-> None, pass |-> None]
    /\ Exit(Traceback)
    /\ msg' = "traceback"
    /\ UNCHANGED << display, fe, admin_username, admin_password, current_user, session_active >>

\* --------------------------------------------------------- specifications

\* The two programs as main() starts them.  In the advanced one the login
\* never hands over to the dashboard (NameError), so only its login steps
\* can occur.
Next ==
    \/ print_login_screen_username
    \/ print_login_screen_password
    \/ print_login_screen_authenticate
    \/ display_dashboard
    \/ CitadelTerminal_show_help
    \/ CitadelTerminal_run
    \/ CitadelTerminal_eof
    \/ show_login_screen_username
    \/ show_login_screen_password
    \/ CitadelCLI_run
    \/ CitadelCLI_eof

Spec == Init /\ [][Next]_vars

\* CitadelCLI's screen handlers entered by a caller that imports the module
\* (it guards main() with __name__) and calls show_dashboard() on a freshly
\* constructed object: the only way its dashboard code runs at all.
InitHandlers ==
    /\ system_status = "SECURE"
    /\ system_metrics = Metrics(InitialCpu)
    /\ session_id \in SessionIds
    /\ active_workflows = Workflows("advanced")
    /\ fe = "advanced"
    /\ admin_username \in EnvUsernames
    /\ admin_password \in EnvPasswords
    /\ current_user = None
    /\ session_active = FALSE
    /\ stack = <<"dash">>
    /\ pc = "cmd"
    /\ username = None
    /\ password = None
    /\ status = "running"
    /\ exit_code = -1
    /\ msg = "none"
    /\ event = NoEvent
    /\ drawn = Draw("dash", None, "")

NextHandlers ==
    \/ Next
    \/ show_dashboard
    \/ CitadelCLI_show_help
    \/ manage_workflows
    \/ manage_workflows_created
    \/ manage_nodes
    \/ show_monitoring
    \/ show_security
    \/ show_settings
    \/ show_dashboard_interrupt

SpecHandlers == (Init \/ InitHandlers) /\ [][NextHandlers]_vars

\* The bars as a function of the figure they show.  The cpu figure, which
\* both constructors fix, is drawn from 0..MaxPercent; the environment
\* variables are unset.  The basic program starts at its login, the advanced
\* dashboard is entered directly; the steps are those that lead to a
\* dashboard being drawn.
MaxPercent == 100

InitBars ==
    /\ system_status = "SECURE"
    /\ \E cpu \in 0..MaxPercent : system_metrics = Metrics(cpu)
    /\ session_id \in SessionIds
    /\ fe \in {"basic", "advanced"}
    /\ admin_username = w_admin
    /\ admin_password = w_citadel
    /\ current_user = None
    /\ session_active = FALSE
    /\ stack = IF fe = "basic" THEN <<"run", "login">> ELSE <<"dash">>
    /\ pc = EntryPc(Top(stack))
    /\ username = None
    /\ password = None
    /\ status = "running"
    /\ exit_code = -1
    /\ msg = "none"
    /\ event = NoEvent
    /\ active_workflows = Workflows(fe)
    /\ drawn = Draw(Top(stack), None, "")

NextBars ==
    \/ print_login_screen_username
    \/ print_login_screen_password
    \/ print_login_screen_authenticate
    \/ show_dashboard
    \/ CitadelCLI_show_help

SpecBars == InitBars /\ [][NextBars]_vars

\* ------------------------------------------------------------ properties

\* The step just taken read a line at prompt p
ReadLine(p) == event'.kind = "line" /\ event'.prompt = p

\* The state follows the submission of a credential pair at the Login screen
Submitted == event.kind = "line" /\ event.user # None

SubScreens == {"Help", "WorkflowList", "NodeList", "Monitoring", "Security", "Settings"}

EnterScreens == {"Help", "NodeList", "Monitoring", "Security", "Settings"}

\* C1: in both front-ends, submitting at the Login screen the pair that
\* matches the configured admin username and password leads to the
\* Dashboard, and submitting any other pair prints the failure message and
\* leaves the program at the Login screen.
C1_LoginOutcome ==
    Submitted =>
        IF event.user = admin_username /\ event.pass = admin_password
        THEN Screen = "Dashboard"
        ELSE msg = "auth_failed" /\ Screen = "Login"

\* C2: the program starts at the Login screen, and whenever the active
\* screen is any other screen a credential check has succeeded:
\* session_active is True and current_user is set (to the admin username
\* the check compared with).
C2_AuthBeforeScreens ==
    /\ (event = NoEvent => Screen = "Login")
    /\ (Screen \in SubScreens \cup {"Dashboard"} =>
            /\ session_active = TRUE
            /\ current_user # None
            /\ current_user = admin_username)

C2_Witness ==
    /\ Screen = "Help"
    /\ session_active
    /\ current_user = w_op

\* The command words each dashboard knows, as its help and prompts spell them
BasicWords == { w_h, w_esc, w_quit, w_exit }

AdvancedWords == { w_h, w_esc, w_quit, w_exit, w_q, w_dashboard, w_workflow,
                   w_nodes, w_monitor, w_security, w_settings }

\* The line is no command of the running front-end's dashboard
NotACommand(line) ==
    IF fe = "basic"
    THEN Lower(line) \notin BasicWords
    ELSE Lower(Strip(line)) \notin AdvancedWords

\* C3: a line that is no recognized command, read at the Dashboard command
\* prompt, prints the rejection message and leaves the program running at
\* the Dashboard with current_user and session_active unchanged.
C3_UnrecognizedRejected ==
    [][ (status = "running" /\ Screen = "Dashboard" /\ ReadLine("cmd")
            /\ NotACommand(event'.line))
        => /\ msg' = "unrecognized"
           /\ status' = "running"
           /\ Screen' = "Dashboard"
           /\ current_user' = current_user
           /\ session_active' = session_active ]_vars

C3_Witness ==
    /\ fe = "basic"
    /\ event.prompt = "cmd" /\ event.line = <<"7">>
    /\ msg = "unrecognized"
    /\ Screen = "Dashboard"
    /\ session_active

\* C4 as claimed: on every screen, a line that is "esc" in any letter case
\* moves the program to the Login screen.
C4_EscFromEveryScreen ==
    [][ (status = "running" /\ event'.kind = "line" /\ Lower(event'.line) = w_esc)
        => Screen' = "Login" ]_vars

\* C4 amended: at the Dashboard command prompt, "esc" in any letter case
\* moves the program to the Login screen; the other screens reached from the
\* Dashboard do not interpret it: Help, NodeList, Monitoring, Security and
\* Settings return to the Dashboard on any line, and the workflow menu
\* refuses it and stays.
C4_EscAtDashboard ==
    [][ (status = "running" /\ event'.kind = "line" /\ Lower(event'.line) = w_esc)
        => /\ (Screen = "Dashboard" => Screen' = "Login" /\ msg' = "returning")
           /\ (Screen \in EnterScreens => Screen' = "Dashboard")
           /\ (Screen = "WorkflowList" => Screen' = "WorkflowList") ]_vars

C4_Witness ==
    /\ event.prompt = "cmd" /\ event.line = <<"E","S","C">>
    /\ Screen = "Login"
    /\ msg = "returning"

\* C5: in both front-ends, "quit" read at the Dashboard command prompt ends
\* the process with exit code 0.
C5_QuitAtDashboard ==
    [][ (status = "running" /\ Screen = "Dashboard" /\ ReadLine("cmd")
            /\ event'.line = w_quit)
        => status' = "exited" /\ exit_code' = 0 ]_vars

C5_Witness ==
    /\ fe = "basic"
    /\ event.prompt = "cmd" /\ event.line = w_quit
    /\ status = "exited" /\ exit_code = 0

ExitWords == { w_quit, w_exit, w_q }

\* C6 as claimed: on every screen of both front-ends, each of "quit",
\* "exit" and "q" ends the process with exit code 0.
C6_QuitFromEveryScreen ==
    [][ (status = "running" /\ event'.kind = "line" /\ event'.line \in ExitWords)
        => status' = "exited" /\ exit_code' = 0 ]_vars

\* C6 amended: at the Dashboard command prompt "quit" and "exit" end the
\* process with exit code 0 in both front-ends and "q" does so in the
\* advanced front-end only (the basic one rejects it as unrecognized); on no
\* other screen does any of the three words end the process with code 0.
C6_QuitAtDashboard ==
    [][ (status = "running" /\ event'.kind = "line" /\ event'.line \in ExitWords)
        => IF Screen = "Dashboard"
           THEN IF event'.line = w_q /\ fe = "basic"
                THEN status' = "running" /\ msg' = "unrecognized"
                        /\ Screen' = "Dashboard"
                ELSE status' = "exited" /\ exit_code' = 0
           ELSE ~(status' = "exited" /\ exit_code' = 0) ]_vars

C6_Witness ==
    /\ fe = "advanced"
    /\ event.prompt = "cmd" /\ event.line = w_q
    /\ status = "exited" /\ exit_code = 0

\* The screen of the handler a dashboard line is dispatched to ("none" for
\* exit and for a rejected line)
HandlerScreen(to) ==
    CASE to = "show_help"          -> "Help"
      [] to = "print_login_screen" -> "Login"
      [] to = "show_login_screen"  -> "Login"
      [] to = "show_dashboard"     -> "Dashboard"
      [] to = "manage_workflows"   -> "WorkflowList"
      [] to = "manage_nodes"       -> "NodeList"
      [] to = "show_monitoring"    -> "Monitoring"
      [] to = "show_security"      -> "Security"
      [] to = "show_settings"      -> "Settings"
      [] OTHER                     -> "none"

\* The branch the running front-end's dashboard takes on a line
DashBranch(line) ==
    IF fe = "basic"
    THEN CitadelTerminal_command(line)
    ELSE CitadelCLI_command(Prompt_ask(line, <<>>))

\* C7: the Dashboard has, for each of Help, WorkflowList, NodeList,
\* Monitoring, Security and Settings, a numbered or named command that
\* moves the program to that screen; each of those screens returns to the
\* Dashboard; and the screen changes in no other way than these, Login to
\* Dashboard on a submitted credential pair, and "esc" to Login.
C7_Navigation ==
    [][ status = "running" =>
        /\ (Screen = "Dashboard" =>
                \A scr \in SubScreens :
                    \E line \in DashLines : HandlerScreen(DashBranch(line)) = scr)
        /\ (Screen \in SubScreens /\ event'.kind = "line" /\ event'.line = <<>>
                => Screen' = "Dashboard")
        /\ (status' = "running" /\ Screen' # Screen =>
                \/ Screen = "Login" /\ Screen' = "Dashboard" /\ Submitted'
                \/ Screen = "Dashboard" /\ Screen' \in SubScreens
                \/ Screen \in SubScreens /\ Screen' = "Dashboard"
                \/ Screen' = "Login" /\ Lower(event'.line) = w_esc) ]_vars

\* What command matching is claimed to ignore: letter case and surrounding
\* whitespace
Normalized(line) == Lower(Strip(line))

\* C8: at every prompt that takes a command, two lines that differ only in
\* letter case or in surrounding whitespace take the same branch: at the
\* dashboard prompt of either front-end and at the workflow menu.
C8_CaseAndSpaceInsensitive ==
    /\ (Screen = "Dashboard" =>
            \A a, b \in DashLines :
                Normalized(a) = Normalized(b) => DashBranch(a) = DashBranch(b))
    /\ (Screen = "WorkflowList" /\ pc = "choice" =>
            \A a, b \in MenuLines :
                Normalized(a) = Normalized(b) =>
                    Prompt_ask_choices(a, MenuChoices, <<"B">>)
                        = Prompt_ask_choices(b, MenuChoices, <<"B">>))

\* C9: an interrupt delivered during a blocking read, on any screen and
\* after any sequence of screen transitions, ends the process with exit
\* code 0; the program does not go on prompting.
C9_InterruptExits ==
    event.kind = "SIGINT" => status = "exited" /\ exit_code = 0

\* C10: the process ends only through a quit command or an interrupt (exit
\* code 0) or through a failed read of input (non-zero exit code); in
\* particular not on submitting credentials at the Login screen.
C10_OnlyQuitInterruptOrEof ==
    /\ (status = "exited" =>
            \/ /\ exit_code = 0
               /\ \/ event.kind = "SIGINT"
                  \/ /\ event.kind = "line" /\ event.prompt = "cmd"
                     /\ Normalized(event.line) \in ExitWords
            \/ exit_code # 0 /\ event.kind = "EOF")
    /\ (Submitted => status = "running")

\* ------------------------------------------------------------------ bars

\* The bar has w cells: k filled ones, then the empty ones
BarShows(bar, w, k) ==
    /\ Len(bar) = w
    /\ \A i \in 1..Len(bar) : bar[i] = IF i <= k THEN "#" ELSE "."

\* Python's round(n/d) for n >= 0, d > 0: to the nearest integer, a tie to
\* the even one
Round(n, d) ==
    LET q == n \div d
        r == n % d
    IN  IF 2 * r < d THEN q
        ELSE IF 2 * r > d THEN q + 1
        ELSE IF q % 2 = 0 THEN q ELSE q + 1

\* The figures of the dashboard on the terminal, each with its bar
DashboardBars ==
    { << system_metrics.cpu, Output.cpu_bar >>,
      << system_metrics.ram, Output.ram_bar >> }
    \cup { << active_workflows[i].progress, Output.wf_bars[i] >> :
                i \in DOMAIN Output.wf_bars }

BarWidth == IF fe = "basic" THEN BarWidthBasic ELSE BarWidthAdvanced

\* C11 as claimed: every bar of a drawn dashboard has exactly width cells,
\* round(p/100 * width) filled ones followed by the empty ones.
C11_BarRounded ==
    drawn.frame = "dash" =>
        \A b \in DashboardBars :
            BarShows(b[2], BarWidth, Round(b[1] * BarWidth, 100))

\* C11: every bar of a drawn dashboard has exactly width cells (10 in the
\* basic front-end, 20 in the advanced one), the integer part of
\* p/100 * width filled ones followed by the empty ones.
C11_BarTruncated ==
    drawn.frame = "dash" =>
        \A b \in DashboardBars :
            BarShows(b[2], BarWidth, (b[1] * BarWidth) \div 100)

\* The basic dashboard drawn after a login with the cpu figure at 78: seven
\* filled cells and three empty ones
C11_Witness ==
    /\ fe = "basic" /\ drawn.frame = "dash" /\ event.prompt = "confirm"
    /\ system_metrics.cpu = 78
    /\ Output.cpu_bar = << "#", "#", "#", "#", "#", "#", "#", ".", ".", "." >>

\* ------------------------------------------------------------ determinism

\* C12: rendering is deterministic: the screen on the terminal, rendered
\* again from the same state at any other wall-clock time, gives the same
\* output.
C12_RenderDeterministic ==
    \A t \in Times : Render(drawn.frame, drawn.user, t) = Output

\* ---------------------------------------------------------- display state

\* C13: display state is read-only: no step of either front-end, the
\* workflow menu's "Create new workflow" included, changes active_workflows,
\* system_metrics, system_status or session_id.
C13_DisplayReadOnly == [][display' = display]_vars

\* "Create new workflow" was chosen at the workflow menu, "New workflow
\* created!" is on the terminal, and the list is the constructor's four
C13_Witness ==
    /\ fe = "advanced" /\ stack # <<>> /\ Top(stack) = "wf" /\ pc = "created"
    /\ event.prompt = "choice" /\ event.line = <<"1">>
    /\ msg = "workflow_created"
    /\ active_workflows = Workflows("advanced")
    /\ Len(active_workflows) = 4

\* ------------------------------------------------------------ call depth

\* C14: the controller is a single read-eval-render loop: no screen handler
\* is pending twice, so at most one Dashboard command loop is active and the
\* depth of pending calls is bounded by the number of handlers, however many
\* transitions or failed logins there were.
C14_SingleLoop ==
    \A i, j \in DOMAIN stack : stack[i] = stack[j] => i = j

\* ---------------------------------------------------------------- session

\* C15: whenever the Login screen is the active screen, no session is
\* active: session_active is False and current_user is None.
C15_NoSessionAtLogin ==
    (status = "running" /\ stack # <<>> /\ Top(stack) = "login") =>
        (~session_active /\ current_user = None)

====
